---- MODULE Spec2Model ----
(***************************************************************************)
(* Model of osmium::detail::mmap_vector_base<T>                             *)
(* (include/osmium/index/detail/mmap_vector_base.hpp): a vector-like array  *)
(* that keeps its elements in a memory mapping, anonymous or backed by a    *)
(* file.  Sizes are size_t values, modelled as integers modulo SizeMod.     *)
(* The mapping class (osmium/util/memory_mapping.hpp) is modelled from its  *)
(* description: it maps a whole number of elements, grows the backing file  *)
(* when needed, and fails with std::system_error when it cannot map.        *)
(***************************************************************************)
EXTENDS Integers, Sequences, FiniteSets, TLC

VARIABLES
    m_size,      \* mmap_vector_base::m_size (size_t)
    m_mapping,   \* mmap_vector_base::m_mapping: [mapped, size, data, fd]
    file,        \* content of the one backing file, in elements
    empty,       \* osmium::index::empty_value<T>(), fixed per element type
    pc,          \* "none" | "live" | "closed" | "crashed" | "revived"
    last,        \* history: the last call, its arguments, outcome, pre-state
    hw,          \* history: the largest size the live array has had
    stored,      \* history: per slot, the last value push_back stored there,
                 \*   the empty value while there was none
    held,        \* history: as stored, but a slot without a store holds what
                 \*   construction or growth left in it
    table,       \* a StringTable: [m_strings, m_index, m_size]
    added,       \* history: the strings add() stored since construction or
                 \*   the last clear(), in the order it stored them
    table_last,  \* history: the last call on the table and its outcome
    m_output_queue,  \* Writer::m_output_queue: the futures queued, the
                     \*   oldest first; a future is its number in `pushed`
    pushed,      \* history: per future, in the order they were queued, the
                 \*   string it resolves to
    ready,       \* the futures that are resolved
    data_future, \* FileOutput::operator(): the future taken last (0: none)
    written,     \* the strings written to the descriptor, in order
    output_pc,   \* FileOutput::operator(): "pop" | "get" | "write" | "done"
    writer       \* the Writer: "open" | "joining" | "destroyed"

array_vars == <<m_size, m_mapping, file, empty, pc, last, hw, stored, held>>

table_vars == <<table, added, table_last>>

output_vars ==
    <<m_output_queue, pushed, ready, data_future, written, output_pc, writer>>

vars == <<array_vars, table_vars, output_vars>>

----------------------------------------------------------------------------
(* Bounds of the model *)

\* size_t is modelled with SizeMod values, 0 .. SizeMod - 1
SizeMod == 6

\* the largest number of elements the system can map (and a file can hold)
MaxMappable == 3

\* element values are 0 .. MaxValue
MaxValue == 1

\* the longest run of push_back calls counted
MaxAppends == 3

\* characters of a string are 1 .. MaxChar (0 is the terminating NUL)
MaxChar == 2

\* strings given to StringTable::add have at most MaxStrLen characters
MaxStrLen == 2

\* the strings futures resolve to are 0 .. MaxData, 0 the empty string
MaxData == 2

\* the number of futures queued in a run
MaxQueued == 3

\* mmap_vector_size_increment, 1024 * 1024 in the source, scaled to the
\* model's size_t
mmap_vector_size_increment == 1

SizeT == 0 .. (SizeMod - 1)
Values == 0 .. MaxValue

\* empty_value<T>() is the all-zero pattern for some element types and a
\* non-zero pattern (such as the largest value) for others
EmptyValues == {0, MaxValue}

\* stands for "no value" where a call returns or stores none
NoValue == -1

----------------------------------------------------------------------------
(* size_t arithmetic *)

Plus(a, b) == (a + b) % SizeMod

Minus(a, b) == (a - b + SizeMod) % SizeMod

----------------------------------------------------------------------------
(* Sequences as memory: slot i (0-based) of d is d[i + 1] *)

Slot(d, i) == d[i + 1]

\* std::fill(d + from, d + to, v); nothing when from >= to
Fill(d, from, to, v) ==
    [k \in 1 .. Len(d) |-> IF from < k /\ k <= to THEN v ELSE d[k]]

\* n copies of v
Rep(n, v) == [k \in 1 .. n |-> v]

\* the first n elements of d
Take(d, n) == SubSeq(d, 1, n)

\* the elements of d after the first n
Drop(d, n) == SubSeq(d, n + 1, Len(d))

----------------------------------------------------------------------------
(* The mapping: osmium::util::TypedMemoryMapping<T> and the file under it *)

\* CanMap that grants a mapping of no elements
CanMap_zero(n, ok) == n <= MaxMappable /\ ok

\* whether the system can map n elements: never none, never more than it
\* has, and not when the environment refuses (ok = FALSE)
CanMap(n, ok) == n > 0 /\ n <= MaxMappable /\ ok

\* file_size(fd): the number of elements the file holds
file_size(f) == Len(f)

\* grow_file that sets the file's length without looking at what it is
grow_file_exact(f, n) == IF Len(f) >= n THEN Take(f, n) ELSE f \o Rep(n - Len(f), 0)

\* the file extended to at least n elements, zero-filled; never shortened
GrowFile(f, n) == IF Len(f) >= n THEN f ELSE f \o Rep(n - Len(f), 0)

\* the file with the shared mapping's content d written through to it
WriteThrough(f, d) == d \o Drop(f, Len(d))

\* a new anonymous mapping of n elements; its content is unspecified (junk)
MapAnon(n, junk) ==
    [mapped |-> TRUE, size |-> n, data |-> Rep(n, junk), fd |-> "anon"]

\* a new shared mapping of the first n elements of the file f, already
\* grown to hold them
MapFile(n, f) ==
    [mapped |-> TRUE, size |-> n, data |-> Take(f, n), fd |-> "file"]

Min(a, b) == IF a <= b THEN a ELSE b

\* remap(base, old_n, new_n), in-place strategy: the region d of old_n
\* elements is extended (or cut) where it is; what it gains is junk
remap_extend(d, old_n, new_n, junk) ==
    IF new_n <= old_n THEN Take(d, new_n) ELSE d \o Rep(new_n - old_n, junk)

\* the copy strategy without its copy
remap_without_copy(d, old_n, new_n, junk) == Rep(new_n, junk)

\* remap(base, old_n, new_n), copy strategy: a fresh region of new_n
\* elements (junk), the first min(old_n, new_n) elements copied into it
remap_copy(d, old_n, new_n, junk) ==
    [k \in 1 .. new_n |-> IF k <= Min(old_n, new_n) THEN d[k] ELSE junk]

\* TypedMemoryMapping::resize(n) on mapping m over file f: the first
\* min(old, n) elements are preserved; new elements are junk (anonymous)
\* or what the grown file holds there (file-backed)
MappingResize(m, n, f, junk) ==
    IF m.fd = "file"
    THEN MapFile(n, GrowFile(f, n))
    ELSE [m EXCEPT !.size = n, !.data = remap_extend(m.data, m.size, n, junk)]

\* TypedMemoryMapping::unmap()
MappingUnmap(m) == [m EXCEPT !.mapped = FALSE, !.data = << >>]

\* map(n): a region of n elements, or a resource error and no region
map(n, e) ==
    IF CanMap(n, e.ok)
    THEN [exc |-> "none", region |-> MapAnon(n, e.junk)]
    ELSE [exc |-> "system_error", region |-> MappingUnmap(MapAnon(0, 0))]

----------------------------------------------------------------------------
(* mmap_vector_base<T>.  A method is an operator from the object s =        *)
(* [m_size, m_mapping, file, exc] and the call's inputs to the object       *)
(* afterwards, with exc the exception thrown ("none" when the call          *)
(* returned, "fault" when undefined behaviour ended the process).  The      *)
(* environment e = [ok, junk, g] decides what the code does not: whether    *)
(* the system grants a mapping (ok), what fresh anonymous memory holds      *)
(* (junk), and what an access outside the mapping amounts to (g).           *)

Self == [m_size |-> m_size, m_mapping |-> m_mapping, file |-> file, exc |-> "none"]

capacity(s) == s.m_mapping.size

size(s) == s.m_size

data(s) == s.m_mapping.data

\* s with its mapped slots replaced by d, written through to a backing file
WithData(s, d) ==
    [s EXCEPT !.m_mapping.data = d,
              !.file = IF s.m_mapping.fd = "file" THEN WriteThrough(s.file, d) ELSE s.file]

\* s with its mapping resized to n elements (and its file grown to hold them)
WithResized(s, n, junk) ==
    [s EXCEPT !.m_mapping = MappingResize(s.m_mapping, n, s.file, junk),
              !.file = IF s.m_mapping.fd = "file" THEN GrowFile(s.file, n) ELSE s.file]

\* the size shrink_to_fit() ends with, from size sz over slots d, sz <= Len(d)
RECURSIVE shrink_size(_, _)
shrink_size(sz, d) ==
    IF sz > 0 /\ Slot(d, sz - 1) = empty THEN shrink_size(sz - 1, d) ELSE sz

\* shrink_to_fit() that also gives the file's slots beyond the size back
shrink_to_fit_truncating(s, e) ==
    LET r == IF s.m_size <= capacity(s)
             THEN [s EXCEPT !.m_size = shrink_size(s.m_size, data(s))]
             ELSE IF e.g = -1 THEN [s EXCEPT !.exc = "fault"]
             ELSE IF e.g > capacity(s) /\ e.g <= s.m_size THEN [s EXCEPT !.m_size = e.g]
             ELSE [s EXCEPT !.m_size = shrink_size(capacity(s), data(s))]
    IN  IF r.exc = "none" /\ r.m_mapping.fd = "file" /\ r.m_size < Len(r.file)
        THEN [r EXCEPT !.file = Take(r.file, r.m_size)]
        ELSE r

\* shrink_to_fit().  With m_size > capacity the loop reads past the mapping
\* (undefined): e.g is what those reads amount to, -1 a fault, a number in
\* capacity+1 .. m_size the size at which a read saw a non-empty value, and
\* anything else that every such read saw the empty value.
shrink_to_fit(s, e) ==
    IF s.m_size <= capacity(s)
    THEN [s EXCEPT !.m_size = shrink_size(s.m_size, data(s))]
    ELSE IF e.g = -1 THEN [s EXCEPT !.exc = "fault"]
    ELSE IF e.g > capacity(s) /\ e.g <= s.m_size THEN [s EXCEPT !.m_size = e.g]
    ELSE [s EXCEPT !.m_size = shrink_size(capacity(s), data(s))]

\* what a constructor that threw leaves: no object
NoObject(f) ==
    [m_size |-> 0, m_mapping |-> MappingUnmap(MapAnon(0, 0)), file |-> f,
     exc |-> "system_error"]

\* the file constructor filling every slot, as the anonymous one does
ctor_file_fill_all(f, cap, sz, e) ==
    IF ~CanMap(cap, e.ok)
    THEN NoObject(f)
    ELSE LET f1 == GrowFile(f, cap)
             s0 == [m_size |-> sz, m_mapping |-> MapFile(cap, f1), file |-> f1,
                    exc |-> "none"]
             s1 == WithData(s0, Fill(data(s0), 0, cap, empty))
         IN  shrink_to_fit(s1, e)

\* the file constructor without the shrink_to_fit() at its end
ctor_file_without_shrink(f, cap, sz, e) ==
    IF ~CanMap(cap, e.ok)
    THEN NoObject(f)
    ELSE LET f1 == GrowFile(f, cap)
             s0 == [m_size |-> sz, m_mapping |-> MapFile(cap, f1), file |-> f1,
                    exc |-> "none"]
         IN  WithData(s0, Fill(data(s0), sz, cap, empty))

\* mmap_vector_base(int fd, size_t capacity, size_t size), size <= capacity
ctor_file(f, cap, sz, e) ==
    IF ~CanMap(cap, e.ok)
    THEN NoObject(f)
    ELSE LET f1 == GrowFile(f, cap)
             s0 == [m_size |-> sz, m_mapping |-> MapFile(cap, f1), file |-> f1,
                    exc |-> "none"]
             s1 == WithData(s0, Fill(data(s0), sz, cap, empty))
         IN  shrink_to_fit(s1, e)

\* the anonymous constructor without its fill
ctor_anon_without_fill(f, cap, e) ==
    IF ~CanMap(cap, e.ok)
    THEN NoObject(f)
    ELSE [m_size |-> 0, m_mapping |-> MapAnon(cap, e.junk), file |-> f, exc |-> "none"]

\* the capacity of mmap_vector_base() constructed without an argument
default_capacity == mmap_vector_size_increment

\* mmap_vector_base(size_t capacity)
ctor_anon(f, cap, e) ==
    IF ~CanMap(cap, e.ok)
    THEN NoObject(f)
    ELSE LET s0 == [m_size |-> 0, m_mapping |-> MapAnon(cap, e.junk), file |-> f,
                    exc |-> "none"]
         IN  WithData(s0, Fill(data(s0), 0, cap, empty))

\* close()
close(s) == [s EXCEPT !.m_mapping = MappingUnmap(s.m_mapping)]

\* clear()
clear(s) == [s EXCEPT !.m_size = 0]

\* reserve(new_capacity) without the fill of the slots it adds
reserve_without_fill(s, new_capacity, e) ==
    IF new_capacity > capacity(s)
    THEN IF ~CanMap(new_capacity, e.ok)
         THEN [s EXCEPT !.exc = "system_error"]
         ELSE WithResized(s, new_capacity, e.junk)
    ELSE s

\* reserve(new_capacity) that fills from the old size rather than from the
\* old capacity
reserve_fill_from_size(s, new_capacity, e) ==
    IF new_capacity > capacity(s)
    THEN IF ~CanMap(new_capacity, e.ok)
         THEN [s EXCEPT !.exc = "system_error"]
         ELSE LET s1 == WithResized(s, new_capacity, e.junk)
              IN  WithData(s1, Fill(data(s1), s.m_size, new_capacity, empty))
    ELSE s

\* reserve(new_capacity)
reserve(s, new_capacity, e) ==
    IF new_capacity > capacity(s)
    THEN LET old_capacity == capacity(s)
         IN  IF ~CanMap(new_capacity, e.ok)
             THEN [s EXCEPT !.exc = "system_error"]
             ELSE LET s1 == WithResized(s, new_capacity, e.junk)
                  IN  WithData(s1, Fill(data(s1), old_capacity, new_capacity, empty))
    ELSE s

\* resize(new_size) that also gives back the slots beyond a smaller size
resize_exact_fit(s, new_size, e) ==
    LET r == IF new_size > capacity(s)
             THEN reserve(s, Plus(new_size, mmap_vector_size_increment), e)
             ELSE IF new_size > 0 /\ new_size < capacity(s)
             THEN WithResized(s, new_size, e.junk)
             ELSE s
    IN  IF r.exc = "none" THEN [r EXCEPT !.m_size = new_size] ELSE r

\* resize(new_size) that sets the size before it secures the capacity
resize_size_first(s, new_size, e) ==
    LET s1 == [s EXCEPT !.m_size = new_size]
    IN  IF new_size > capacity(s)
        THEN reserve(s1, Plus(new_size, mmap_vector_size_increment), e)
        ELSE s1

\* resize(new_size) that reserves no more than the size asked for
resize_without_headroom(s, new_size, e) ==
    LET r == IF new_size > capacity(s) THEN reserve(s, new_size, e) ELSE s
    IN  IF r.exc = "none" THEN [r EXCEPT !.m_size = new_size] ELSE r

\* resize(new_size)
resize(s, new_size, e) ==
    LET r == IF new_size > capacity(s)
             THEN reserve(s, Plus(new_size, mmap_vector_size_increment), e)
             ELSE s
    IN  IF r.exc = "none" THEN [r EXCEPT !.m_size = new_size] ELSE r

\* push_back(value) storing at the new size rather than below it
push_back_at_size(s, value, e) ==
    LET r == resize(s, Plus(s.m_size, 1), e)
        i == r.m_size
    IN  IF r.exc # "none" THEN r
        ELSE IF i < capacity(r) THEN WithData(r, [data(r) EXCEPT ![i + 1] = value])
        ELSE IF e.g = -1 THEN [r EXCEPT !.exc = "fault"]
        ELSE r

\* push_back(value).  A store past the mapping (m_size - 1 >= capacity) is
\* undefined: it faults (e.g = -1) or lands outside the array's slots.
push_back(s, value, e) ==
    LET r == resize(s, Plus(s.m_size, 1), e)
        i == Minus(r.m_size, 1)
    IN  IF r.exc # "none" THEN r
        ELSE IF i < capacity(r) THEN WithData(r, [data(r) EXCEPT ![i + 1] = value])
        ELSE IF e.g = -1 THEN [r EXCEPT !.exc = "fault"]
        ELSE r

\* at(n) with the comparison against m_size off by one
at_off_by_one(s, n, e) ==
    IF n > s.m_size THEN [exc |-> "out_of_range", ret |-> NoValue]
    ELSE IF n < capacity(s) THEN [exc |-> "none", ret |-> Slot(data(s), n)]
    ELSE IF e.g = -1 THEN [exc |-> "fault", ret |-> NoValue]
    ELSE [exc |-> "none", ret |-> e.g]

\* at(n): [exc, ret].  A read past the mapping (n >= capacity) is undefined:
\* it faults (e.g = -1) or returns whatever is there (e.g).
at(s, n, e) ==
    IF n >= s.m_size THEN [exc |-> "out_of_range", ret |-> NoValue]
    ELSE IF n < capacity(s) THEN [exc |-> "none", ret |-> Slot(data(s), n)]
    ELSE IF e.g = -1 THEN [exc |-> "fault", ret |-> NoValue]
    ELSE [exc |-> "none", ret |-> e.g]

----------------------------------------------------------------------------
(* StringStore and StringTable (include/osmium/io/detail/string_table.hpp). *)
(* A string is a sequence of characters; a chunk is a std::string holding   *)
(* NUL-terminated strings one after the other.  m_chunks is the list of     *)
(* chunks, its front first.  A const char* into the store is [chunk, off]:  *)
(* the chunk counted from the back of the list (the oldest is 1), which     *)
(* push_front leaves unchanged, and the offset in it.                       *)

\* the chunk size StringTable gives its StringStore, 1024 * 1024 in the
\* source, scaled to the model's strings
string_table_chunk_size == 3

\* StringTable::max_entries (max_uncompressed_blob_size in the source),
\* scaled
max_entries == 3

\* the strings of at most n characters
RECURSIVE StringsUpTo(_)
StringsUpTo(n) ==
    IF n = 0 THEN {<< >>}
    ELSE LET shorter == StringsUpTo(n - 1)
         IN  shorter \cup {Append(t, c) : t \in shorter, c \in 1 .. MaxChar}

Strings == StringsUpTo(MaxStrLen)

\* std::string::reserve(n) leaves a capacity of n or more
Capacities(n) == {n, n + 1}

\* StringStore::add_chunk(); cap is the capacity reserve() gave the chunk
add_chunk(ss, cap) ==
    [ss EXCEPT !.m_chunks = <<[capacity |-> cap, str |-> << >>]>> \o @]

\* StringStore::StringStore(chunk_size)
StringStore(chunk_size, cap) ==
    add_chunk([m_chunk_size |-> chunk_size, m_chunks |-> << >>], cap)

\* StringStore::clear()
StringStore_clear(ss) ==
    [ss EXCEPT !.m_chunks = <<[Head(@) EXCEPT !.str = << >>]>>]

\* StringStore::add(string): [store, ptr], the store afterwards and the
\* pointer returned
StringStore_add(ss, string, cap) ==
    LET len == Len(string) + 1
        chunk_len == Len(Head(ss.m_chunks).str)
        full == chunk_len + len > Head(ss.m_chunks).capacity
        s1 == IF full THEN add_chunk(ss, cap) ELSE ss
    IN  [store |-> [s1 EXCEPT !.m_chunks[1].str = (@ \o string) \o <<0>>],
         ptr |-> [chunk |-> Len(s1.m_chunks), off |-> IF full THEN 0 ELSE chunk_len]]

\* the characters of str from offset pos up to the next NUL (or the end)
RECURSIVE c_string(_, _)
c_string(str, pos) ==
    IF pos >= Len(str) \/ str[pos + 1] = 0 THEN << >>
    ELSE <<str[pos + 1]>> \o c_string(str, pos + 1)

\* the string a pointer into the store points to
Deref(ss, ptr) ==
    c_string(ss.m_chunks[Len(ss.m_chunks) - ptr.chunk + 1].str, ptr.off)

\* StringStore::const_iterator(it, last): m_it is a position in m_chunks
\* (Len + 1 is the list's end), m_pos an offset in that chunk, -1 nullptr
const_iterator(ss, it) ==
    [m_it |-> it, m_pos |-> IF it = Len(ss.m_chunks) + 1 THEN -1 ELSE 0]

\* StringStore::end()
end(ss) == const_iterator(ss, Len(ss.m_chunks) + 1)

\* StringStore::begin()
begin(ss) ==
    IF Head(ss.m_chunks).str = << >> THEN end(ss) ELSE const_iterator(ss, 1)

\* the offset the loop `while (m_pos != last_pos && *m_pos) ++m_pos` ends at
RECURSIVE skip_to_nul(_, _)
skip_to_nul(str, pos) ==
    IF pos # Len(str) /\ str[pos + 1] # 0 THEN skip_to_nul(str, pos + 1) ELSE pos

\* const_iterator::operator++()
increment(ss, i) ==
    LET str == ss.m_chunks[i.m_it].str
        last_pos == Len(str)
        p1 == skip_to_nul(str, i.m_pos)
        p2 == IF p1 # last_pos THEN p1 + 1 ELSE p1
    IN  IF p2 = last_pos
        THEN [m_it |-> i.m_it + 1,
              m_pos |-> IF i.m_it + 1 # Len(ss.m_chunks) + 1 THEN 0 ELSE -1]
        ELSE [m_it |-> i.m_it, m_pos |-> p2]

\* const_iterator::operator*()
dereference(ss, i) == c_string(ss.m_chunks[i.m_it].str, i.m_pos)

\* the strings a loop from i to end() yields: for (; i != end(); ++i) *i
RECURSIVE Iterated(_, _)
Iterated(ss, i) ==
    IF i = end(ss) THEN << >>
    ELSE <<dereference(ss, i)>> \o Iterated(ss, increment(ss, i))

\* StringTable::StringTable()
StringTable(cap) ==
    [m_strings |-> StringStore_add(StringStore(string_table_chunk_size, cap), << >>, cap).store,
     m_index |-> {},
     m_size |-> 0]

\* StringTable::clear()
StringTable_clear(t, cap) ==
    [m_strings |-> StringStore_add(StringStore_clear(t.m_strings), << >>, cap).store,
     m_index |-> {},
     m_size |-> 0]

\* StringTable::size()
StringTable_size(t) == t.m_size + 1

\* StrComp-equal entries of m_index for the key s: m_index.find(s)
find(t, s) == {x \in t.m_index : Deref(t.m_strings, x.key) = s}

\* StringTable::add with an index ordered by the pointers (no StrComp): the
\* caller's pointer is never one of the store's
StringTable_add_by_pointer(t, s, cap) ==
    LET a == StringStore_add(t.m_strings, s, cap)
        n == t.m_size + 1
        t1 == [m_strings |-> a.store,
               m_index |-> t.m_index \cup {[key |-> a.ptr, value |-> n]},
               m_size |-> n]
    IN  IF n > max_entries
        THEN [table |-> t1, ret |-> NoValue, exc |-> "pbf_error"]
        ELSE [table |-> t1, ret |-> n, exc |-> "none"]

\* StringTable::add(s): [table, ret, exc]
StringTable_add(t, s, cap) ==
    LET f == find(t, s)
    IN  IF f # {}
        THEN [table |-> t, ret |-> (CHOOSE x \in f : TRUE).value, exc |-> "none"]
        ELSE LET a == StringStore_add(t.m_strings, s, cap)
                 n == t.m_size + 1
                 t1 == [m_strings |-> a.store,
                        m_index |-> t.m_index \cup {[key |-> a.ptr, value |-> n]},
                        m_size |-> n]
             IN  IF n > max_entries
                 THEN [table |-> t1, ret |-> NoValue, exc |-> "pbf_error"]
                 ELSE [table |-> t1, ret |-> n, exc |-> "none"]

\* StringTable::begin() .. end(): the strings iterating the table yields
StringTable_strings(t) == Iterated(t.m_strings, begin(t.m_strings))

NoTableCall == [op |-> "none", ret |-> NoValue, exc |-> "none"]

InitTable ==
    /\ table \in {StringTable(cap) : cap \in Capacities(string_table_chunk_size)}
    /\ added = << >>
    /\ table_last = NoTableCall

----------------------------------------------------------------------------
(* FileOutput and Writer (include/osmium/io/output.hpp).  The queue         *)
(* (osmium/thread/queue.hpp) is a FIFO queue whose wait_and_pop blocks      *)
(* while it is empty; the Output that fills it is an abstract class.        *)

Data == 0 .. MaxData

EmptyString == 0

\* Queue::push(future)
push(q, f) == Append(q, f)

\* Queue::wait_and_pop(future), on a queue that is not empty: [value, queue]
wait_and_pop(q) == [value |-> Head(q), queue |-> Tail(q)]

\* the loop's write and test with the test inverted: while (data.empty())
FileOutput_write_inverted(out, d) ==
    [written |-> Append(out, d),
     pc |-> IF d = EmptyString THEN "pop" ELSE "done"]

\* FileOutput::operator(): reliable_write(m_fd, data) and the loop's test
\* `while (!data.empty())`: what is written afterwards, and where the
\* thread goes
FileOutput_write(out, d) ==
    [written |-> Append(out, d),
     pc |-> IF d # EmptyString THEN "pop" ELSE "done"]

InitOutput ==
    /\ m_output_queue = << >>
    /\ pushed = << >>
    /\ ready = {}
    /\ data_future = 0
    /\ written = << >>
    /\ output_pc = "pop"
    /\ writer = "open"

----------------------------------------------------------------------------
(* The state machine: arrays are constructed one after the other over the  *)
(* same file; the live one takes calls until it is closed.  An anonymous    *)
(* array neither reads nor changes the file, so one is constructed only     *)
(* while the file is still empty.                                           *)

NoCall ==
    [op |-> "none", exc |-> "none", ret |-> NoValue, grew |-> FALSE,
     after_clear |-> FALSE, resumed |-> FALSE]

\* whether the closed array s was file-backed and held k >= 1 values, none
\* of them empty, in a mapping of at least k slots
Resumable(s) ==
    /\ pc = "closed"
    /\ s.m_mapping.fd = "file"
    /\ s.m_size >= 1
    /\ s.m_size <= capacity(s)
    /\ \A i \in 0 .. (s.m_size - 1) : Slot(s.file, i) # empty

\* slots from .. to-1 of d hold the empty value
TailEmpty(d, from, to) == \A i \in from .. (to - 1) : Slot(d, i) = empty

\* the record of a call of op that ended with exc, returned ret and left the
\* object r: whether it grew the mapping, whether it is a push_back that
\* followed a clear(), and (resumed) whether it constructed an array over
\* the slots of a closed one, with the closed one's capacity as capacity
\* and as initial size
Call(op, r, exc, ret, resumed) ==
    [op |-> op, exc |-> exc, ret |-> ret,
     grew |-> (pc = "live" /\ exc = "none" /\ capacity(r) > m_mapping.size),
     after_clear |-> (op = "push_back" /\ last.op = "clear"), resumed |-> resumed]

Max(a, b) == IF a >= b THEN a ELSE b

\* a history of slots, extended to n slots that hold the empty value
Extended(w, n) == IF Len(w) >= n THEN w ELSE w \o Rep(n - Len(w), empty)

\* a history of slots after a call that stored v to slot wi (none: wi = -1)
\* and left the array with n slots
Stored(w, n, wi, v) ==
    LET x == Extended(w, n) IN IF wi >= 0 THEN [x EXCEPT ![wi + 1] = v] ELSE x

InitArray ==
    /\ m_size = 0
    /\ m_mapping = NoObject(<< >>).m_mapping
    /\ file = << >>
    /\ empty \in EmptyValues
    /\ pc = "none"
    /\ last = NoCall
    /\ hw = 0
    /\ stored = << >>
    /\ held = << >>

\* the arrays' initial state; the table and the pipeline, which the arrays
\* have nothing to do with, are as constructed
Init ==
    /\ InitArray
    /\ table = StringTable(string_table_chunk_size)
    /\ added = << >>
    /\ table_last = NoTableCall
    /\ InitOutput

\* the outcome r of constructing an array, recorded as call c
Constructed(r, c) ==
    /\ last' = c
    /\ UNCHANGED <<table_vars, output_vars>>
    /\ UNCHANGED empty
    /\ IF r.exc = "none"
       THEN /\ m_size' = r.m_size
            /\ m_mapping' = r.m_mapping
            /\ file' = r.file
            /\ pc' = "live"
            /\ hw' = r.m_size
            /\ stored' = Rep(capacity(r), empty)
            /\ held' = data(r)
       ELSE UNCHANGED <<m_size, m_mapping, file, pc, hw, stored, held>>

\* the outcome r of a call on the live array, recorded as call c; wi is the
\* slot the call stored the value v to, or -1
Called(r, c, wi, v) ==
    /\ last' = c
    /\ UNCHANGED <<table_vars, output_vars>>
    /\ UNCHANGED empty
    /\ IF r.exc = "fault"
       THEN /\ pc' = "crashed"
            /\ UNCHANGED <<m_size, m_mapping, file, hw, stored, held>>
       ELSE /\ m_size' = r.m_size
            /\ m_mapping' = r.m_mapping
            /\ file' = r.file
            /\ pc' = pc
            /\ hw' = Max(hw, r.m_size)
            /\ stored' = Stored(stored, capacity(r), wi, v)
            /\ held' = Stored(held, capacity(r), wi, v)

\* what the environment may answer to a call that asks for n slots
Oks(n) == IF n > m_mapping.size THEN BOOLEAN ELSE {TRUE}

\* what fresh memory may hold when a call asks for n slots
Junks(n) == IF m_mapping.fd = "anon" /\ n > m_mapping.size THEN Values ELSE {0}

Env(oks, junks, gs) == [ok : oks, junk : junks, g : gs]

ConstructAnon ==
    /\ pc \in {"none", "closed"}
    /\ file = << >>
    /\ \E cap \in 0 .. (MaxMappable + 1) :
       \E e \in Env(BOOLEAN, Values, {0}) :
          LET r == ctor_anon(file, cap, e)
          IN  Constructed(r, Call("ctor_anon", r, r.exc, NoValue, FALSE))

ConstructFile ==
    /\ pc \in {"none", "closed"}
    /\ \E cap \in 0 .. (MaxMappable + 1) :
       \E sz \in 0 .. cap :
       \E e \in Env(BOOLEAN, {0}, {0}) :
          LET r == ctor_file(file, cap, sz, e)
          IN  Constructed(r, Call("ctor_file", r, r.exc, NoValue,
                                  Resumable(Self) /\ cap = m_mapping.size /\ sz = cap
                                  /\ TailEmpty(file, m_size, cap)
                                  /\ r.exc = "none"))

PushBack ==
    /\ pc = "live"
    /\ \E value \in Values :
       \E e \in Env(Oks(Plus(m_size, 1)), Junks(Plus(m_size, 1)), {-1, 0}) :
          /\ e.g = 0 \/ m_size > m_mapping.size
          /\ LET r  == push_back(Self, value, e)
                 i  == Minus(r.m_size, 1)
                 wi == IF r.exc = "none" /\ i < capacity(r) THEN i ELSE -1
             IN  Called(r, Call("push_back", r, r.exc, NoValue, FALSE), wi, value)

Reserve ==
    /\ pc = "live"
    /\ \E n \in SizeT :
       \E e \in Env(Oks(n), Junks(n), {0}) :
          LET r == reserve(Self, n, e)
          IN  Called(r, Call("reserve", r, r.exc, NoValue, FALSE), -1, 0)

Resize ==
    /\ pc = "live"
    /\ \E n \in SizeT :
       \E e \in Env(Oks(n), Junks(n), {0}) :
          LET r == resize(Self, n, e)
          IN  Called(r, Call("resize", r, r.exc, NoValue, FALSE), -1, 0)

Clear ==
    /\ pc = "live"
    /\ LET r == clear(Self)
       IN  Called(r, Call("clear", r, r.exc, NoValue, FALSE), -1, 0)

ShrinkToFit ==
    /\ pc = "live"
    /\ \E e \in Env({TRUE}, {0}, -1 .. (SizeMod - 1)) :
          /\ \/ e.g = 0
             \/ m_size > m_mapping.size /\ (e.g = -1 \/ (e.g > m_mapping.size /\ e.g <= m_size))
          /\ LET r == shrink_to_fit(Self, e)
             IN  Called(r, Call("shrink_to_fit", r, r.exc, NoValue, FALSE), -1, 0)

At ==
    /\ pc = "live"
    /\ \E n \in SizeT :
       \E e \in Env({TRUE}, {0}, {-1} \cup Values) :
          /\ e.g = 0 \/ (n < m_size /\ n >= m_mapping.size)
          /\ LET a == at(Self, n, e)
                 r == [Self EXCEPT !.exc = IF a.exc = "fault" THEN "fault" ELSE "none"]
             IN  Called(r, Call("at", r, a.exc, a.ret, FALSE), -1, 0)

\* The calls below are made on an array after its close().  The code has no
\* check for that: a call that needs more capacity goes to the mapping's
\* resize as on a mapped array.  For a file-backed array the mapping then
\* maps the file again (or fails); the array is mapped once more, which pc
\* records as "revived".  On an anonymous array there is nothing to map
\* again and the call fails, leaving the array as it was.

\* the outcome r of a call on the closed array, recorded as call c
CalledAfterClose(r, c) ==
    /\ last' = c
    /\ UNCHANGED <<table_vars, output_vars>>
    /\ UNCHANGED empty
    /\ IF r.exc = "none"
       THEN /\ m_size' = r.m_size
            /\ m_mapping' = r.m_mapping
            /\ file' = r.file
            /\ pc' = "revived"
            /\ hw' = Max(m_size, r.m_size)
            /\ stored' = Rep(capacity(r), empty)
            /\ held' = data(r)
       ELSE UNCHANGED <<m_size, m_mapping, file, pc, hw, stored, held>>

ReserveAfterClose ==
    /\ pc = "closed"
    /\ m_mapping.fd = "file"
    /\ \E n \in SizeT :
       \E e \in Env(BOOLEAN, {0}, {0}) :
          /\ n > m_mapping.size
          /\ LET r == reserve(Self, n, e)
             IN  CalledAfterClose(r, Call("reserve", r, r.exc, NoValue, FALSE))

ResizeAfterClose ==
    /\ pc = "closed"
    /\ m_mapping.fd = "file"
    /\ \E n \in SizeT :
       \E e \in Env(BOOLEAN, {0}, {0}) :
          /\ n > m_mapping.size
          /\ Plus(n, mmap_vector_size_increment) > m_mapping.size
          /\ LET r == resize(Self, n, e)
             IN  CalledAfterClose(r, Call("resize", r, r.exc, NoValue, FALSE))

PushBackAfterClose ==
    /\ pc = "closed"
    /\ m_mapping.fd = "file"
    /\ \E value \in Values :
       \E e \in Env(BOOLEAN, {0}, {0}) :
          /\ Plus(m_size, 1) > m_mapping.size
          /\ Plus(Plus(m_size, 1), mmap_vector_size_increment) > m_mapping.size
          /\ LET r == push_back(Self, value, e)
             IN  CalledAfterClose(r, Call("push_back", r, r.exc, NoValue, FALSE))

Close ==
    /\ pc \in {"live", "revived"}
    /\ LET r == close(Self)
       IN  /\ m_mapping' = r.m_mapping
           /\ pc' = "closed"
           /\ last' = Call("close", r, "none", NoValue, FALSE)
           /\ hw' = 0
           /\ stored' = << >>
           /\ held' = << >>
           /\ UNCHANGED <<m_size, file, empty>>
           /\ UNCHANGED <<table_vars, output_vars>>

Next ==
    \/ ConstructAnon
    \/ ConstructFile
    \/ PushBack
    \/ Reserve
    \/ Resize
    \/ Clear
    \/ ShrinkToFit
    \/ At
    \/ ReserveAfterClose
    \/ ResizeAfterClose
    \/ PushBackAfterClose
    \/ Close

Spec == Init /\ [][Next]_vars

----------------------------------------------------------------------------
(* The StringTable's state machine: one table takes add() and clear()      *)
(* calls.  add() is given strings that fit a chunk (the store's assert),   *)
(* and none once it has thrown for too many entries.                        *)

TableAdd ==
    /\ table.m_size <= max_entries
    /\ \E s \in Strings : \E cap \in Capacities(string_table_chunk_size) :
          /\ Len(s) + 1 <= table.m_strings.m_chunk_size
          /\ LET r == StringTable_add(table, s, cap)
             IN  /\ table' = r.table
                 /\ added' = IF r.table.m_size > table.m_size THEN Append(added, s)
                              ELSE added
                 /\ table_last' = [op |-> "add", ret |-> r.ret, exc |-> r.exc]
    /\ UNCHANGED <<array_vars, output_vars>>

TableClear ==
    /\ \E cap \in Capacities(string_table_chunk_size) :
          table' = StringTable_clear(table, cap)
    /\ added' = << >>
    /\ table_last' = [op |-> "clear", ret |-> NoValue, exc |-> "none"]
    /\ UNCHANGED <<array_vars, output_vars>>

NextTable ==
    \/ TableAdd
    \/ TableClear

\* the initial state of the components that have no use for an array: no
\* array is constructed, and the table is constructed with any capacity
\* reserve() may give its first chunk
InitZero ==
    /\ InitArray
    /\ empty = 0
    /\ InitTable
    /\ InitOutput

SpecTable == InitZero /\ [][NextTable]_vars

----------------------------------------------------------------------------
(* The output pipeline's state machine: a Writer with its FileOutput        *)
(* thread.  The Output queues a future per buffer handed to the Writer and  *)
(* whatever its close() queues; futures are resolved by other threads, in   *)
(* any order.                                                               *)

\* the future for the string d queued
Queued(d) ==
    /\ pushed' = Append(pushed, d)
    /\ m_output_queue' = push(m_output_queue, Len(pushed) + 1)

\* Writer::operator()(buffer): m_output->handle_buffer queues a future
Submit ==
    /\ writer = "open"
    /\ Len(pushed) < MaxQueued
    /\ \E d \in Data : Queued(d)
    /\ UNCHANGED <<ready, data_future, written, output_pc, writer>>
    /\ UNCHANGED <<array_vars, table_vars>>

\* a future is resolved
Resolve ==
    /\ \E f \in (1 .. Len(pushed)) \ ready : ready' = ready \cup {f}
    /\ UNCHANGED <<m_output_queue, pushed, data_future, written, output_pc, writer>>
    /\ UNCHANGED <<array_vars, table_vars>>

\* Writer::close(): m_output->close(), which may queue a last, empty string
WriterClose ==
    /\ writer = "open"
    /\ Len(pushed) < MaxQueued
    /\ Queued(EmptyString)
    /\ UNCHANGED <<ready, data_future, written, output_pc, writer>>
    /\ UNCHANGED <<array_vars, table_vars>>

\* Writer::~Writer(), up to the join: close(), whose Output queues an empty
\* string or nothing
WriterDestroy ==
    /\ writer = "open"
    /\ \/ Len(pushed) < MaxQueued /\ Queued(EmptyString)
       \/ UNCHANGED <<pushed, m_output_queue>>
    /\ writer' = "joining"
    /\ UNCHANGED <<ready, data_future, written, output_pc>>
    /\ UNCHANGED <<array_vars, table_vars>>

\* Writer::~Writer(): m_file_output.join() returns
WriterJoin ==
    /\ writer = "joining"
    /\ output_pc = "done"
    /\ writer' = "destroyed"
    /\ UNCHANGED <<m_output_queue, pushed, ready, data_future, written, output_pc>>
    /\ UNCHANGED <<array_vars, table_vars>>

\* FileOutput::operator(): m_input_queue.wait_and_pop(data_future)
OutputPop ==
    /\ output_pc = "pop"
    /\ m_output_queue # << >>
    /\ data_future' = wait_and_pop(m_output_queue).value
    /\ m_output_queue' = wait_and_pop(m_output_queue).queue
    /\ output_pc' = "get"
    /\ UNCHANGED <<pushed, ready, written, writer>>
    /\ UNCHANGED <<array_vars, table_vars>>

\* FileOutput::operator(): data = data_future.get()
OutputGet ==
    /\ output_pc = "get"
    /\ data_future \in ready
    /\ output_pc' = "write"
    /\ UNCHANGED <<m_output_queue, pushed, ready, data_future, written, writer>>
    /\ UNCHANGED <<array_vars, table_vars>>

\* FileOutput::operator(): reliable_write and the loop's test
OutputWrite ==
    /\ output_pc = "write"
    /\ LET w == FileOutput_write(written, pushed[data_future])
       IN  /\ written' = w.written
           /\ output_pc' = w.pc
    /\ UNCHANGED <<m_output_queue, pushed, ready, data_future, writer>>
    /\ UNCHANGED <<array_vars, table_vars>>

NextOutput ==
    \/ Submit
    \/ Resolve
    \/ WriterClose
    \/ WriterDestroy
    \/ WriterJoin
    \/ OutputPop
    \/ OutputGet
    \/ OutputWrite

SpecOutput == InitZero /\ [][NextOutput]_vars

\* the shape of the state
TypeOK ==
    /\ m_size \in SizeT
    /\ m_mapping.size \in 0 .. MaxMappable
    /\ m_mapping.mapped => Len(m_mapping.data) = m_mapping.size
    /\ pc \in {"none", "live", "closed", "crashed", "revived"}
    /\ (pc \in {"live", "revived"}) => m_mapping.mapped /\ m_mapping.size >= 1
    /\ (pc \in {"live", "revived"} /\ m_mapping.fd = "file") =>
           /\ Len(file) >= m_mapping.size
           /\ Take(file, m_mapping.size) = m_mapping.data
    /\ Len(file) <= MaxMappable

----------------------------------------------------------------------------
(* Claims.  A claim about what a call does is stated over every reachable   *)
(* state the call can start from and every input and answer of the          *)
(* environment: "from here, the call ends like this".                       *)

Live == pc = "live"

\* every answer of the environment to a call that may grow the mapping
\* (GrowEnv), to one that may touch memory outside it (WildEnv), to both
GrowEnv == Env(BOOLEAN, Values, {0})

WildEnv == Env({TRUE}, {0}, -1 .. (SizeMod - 1))

AnyEnv == Env(BOOLEAN, Values, {-1, 0})

\* slots 0 .. n-1 of d1 and d2 are the same
SamePrefix(d1, d2, n) == \A i \in 0 .. (n - 1) : Slot(d1, i) = Slot(d2, i)

\* C1: for a mapped array, size() <= capacity() after construction and after
\* every push_back, reserve, resize, clear and shrink_to_fit, whatever the
\* arguments.
C1_SizeWithinCapacity == Live => m_size <= m_mapping.size

\* C2: in every reachable state every slot in [size, capacity) holds the
\* empty value.
C2_TailIsEmpty ==
    Live => \A i \in 0 .. (m_mapping.size - 1) :
                i >= m_size => Slot(m_mapping.data, i) = empty

\* C2 (amended): in every reachable state every slot in [h, capacity) holds
\* the empty value, h being the largest size the array has had since its
\* construction; slots in [size, h) keep what they held.
C2_TailBeyondHighWaterIsEmpty ==
    Live => \A i \in 0 .. (m_mapping.size - 1) :
                i >= hw => Slot(m_mapping.data, i) = empty

\* C2 witness: the array was grown by reserve while holding values, and has
\* slots beyond every size it has had.
C2_Witness ==
    /\ Live
    /\ last.op = "reserve" /\ last.grew
    /\ hw >= 1 /\ hw < m_mapping.size
    /\ m_size < hw
    /\ \E i \in 0 .. (hw - 1) : i >= m_size /\ Slot(m_mapping.data, i) # empty

\* C3: values stored at 0 .. k-1 of a file-backed array of capacity c, none
\* of them empty; the array closed; a new array constructed over the same
\* file with capacity c and the initial size left at 0: then size() = k and
\* slots 0 .. k-1 hold the values they held.
C3_ReopenWithDefaultSize ==
    Resumable(Self) =>
        \A e \in GrowEnv :
            LET r == ctor_file(file, m_mapping.size, 0, e)
            IN  r.exc = "none" =>
                    /\ r.m_size = m_size
                    /\ SamePrefix(data(r), file, m_size)

\* C3 (amended): the same, with the new array constructed with an initial
\* size s, k <= s <= c, such that the file's slots k .. s-1 hold the empty
\* value (s = k always does): then size() = k and slots 0 .. k-1 hold the
\* values they held.
C3_ReopenWithSize ==
    Resumable(Self) =>
        \A sz \in m_size .. m_mapping.size : \A e \in GrowEnv :
            LET r == ctor_file(file, m_mapping.size, sz, e)
            IN  (r.exc = "none" /\ TailEmpty(file, m_size, sz)) =>
                    /\ r.m_size = m_size
                    /\ capacity(r) = m_mapping.size
                    /\ SamePrefix(data(r), file, m_size)

\* C3 witness: an array constructed with initial size c over the slots of a
\* closed one of capacity c that held two values or more, fewer than c.
C3_Witness ==
    /\ Live
    /\ last.op = "ctor_file" /\ last.resumed
    /\ m_size >= 2 /\ m_size < m_mapping.size

\* what push_back last stored to slot n, the empty value if it stored none
LastStored(n) == IF n < Len(stored) THEN Slot(stored, n) ELSE empty

\* C4: at(i) fails with a bounds error for i >= size(); for i < size() it
\* returns the last value written to slot i, or the empty value if slot i
\* was never written.
C4_AtReturnsStoredOrEmpty ==
    Live =>
        \A n \in SizeT : \A e \in WildEnv :
            LET a == at(Self, n, e)
            IN  IF n >= m_size
                THEN a.exc = "out_of_range"
                ELSE a.exc = "none" /\ a.ret = LastStored(n)

\* C4 (amended): at(i) fails with a bounds error for i >= size(); for
\* i < size() and i < capacity() it returns the last value written to slot
\* i, or, if slot i was never written, what construction or growth left
\* there: the empty value, except below the initial size of a file-backed
\* array, where it is what the file held.
C4_AtReturnsHeld ==
    Live =>
        \A n \in SizeT : \A e \in WildEnv :
            LET a == at(Self, n, e)
            IN  IF n >= m_size
                THEN a.exc = "out_of_range" /\ a.ret = NoValue
                ELSE n < m_mapping.size =>
                        a.exc = "none" /\ a.ret = Slot(held, n)

\* C4 witness: at() returned a value that is not the empty one from an
\* array that has grown.
C4_Witness ==
    /\ Live
    /\ last.op = "at" /\ last.exc = "none" /\ last.ret # empty
    /\ m_size >= 2 /\ m_size <= m_mapping.size
    /\ \E i \in 0 .. (m_size - 1) : Slot(held, i) # Slot(stored, i)

\* C5: push_back(v) on an array of size s and capacity c: afterwards size
\* is s + 1, slot s holds v, slots 0 .. s-1 are unchanged, and capacity is
\* s + 1 + increment if s + 1 > c and c otherwise.
C5_PushBack ==
    Live =>
        \A v \in Values : \A e \in AnyEnv :
            LET r == push_back(Self, v, e)
            IN  r.exc = "none" =>
                    /\ r.m_size = m_size + 1
                    /\ capacity(r) = IF m_size + 1 > m_mapping.size
                                     THEN m_size + 1 + mmap_vector_size_increment
                                     ELSE m_mapping.size
                    /\ Slot(data(r), m_size) = v
                    /\ SamePrefix(data(r), m_mapping.data, m_size)

\* C6: reserve(n) changes nothing when n <= capacity; when n > capacity it
\* makes capacity n, leaves size and slots 0 .. old capacity - 1 unchanged
\* and sets every slot from old capacity to n - 1 to the empty value.
C6_Reserve ==
    Live =>
        \A n \in SizeT : \A e \in GrowEnv :
            LET r == reserve(Self, n, e)
            IN  r.exc = "none" =>
                    IF n <= m_mapping.size
                    THEN r = Self
                    ELSE /\ capacity(r) = n
                         /\ Len(data(r)) = n
                         /\ r.m_size = m_size
                         /\ SamePrefix(data(r), m_mapping.data, m_mapping.size)
                         /\ \A i \in m_mapping.size .. (n - 1) : Slot(data(r), i) = empty

\* C6 witness: reserve grew an array that holds values, some of them beyond
\* its size.
C6_Witness ==
    /\ Live
    /\ last.op = "reserve" /\ last.grew
    /\ m_size >= 1 /\ m_size < hw /\ hw < m_mapping.size
    /\ Slot(m_mapping.data, 0) # empty
    /\ Slot(m_mapping.data, m_size) # empty

\* C7: resize(n) ends with size n; capacity becomes n + increment if n was
\* above capacity and is unchanged otherwise; slots 0 .. old capacity - 1
\* keep their values.
C7_Resize ==
    Live =>
        \A n \in SizeT : \A e \in GrowEnv :
            LET r == resize(Self, n, e)
            IN  r.exc = "none" =>
                    /\ r.m_size = n
                    /\ capacity(r) = IF n > m_mapping.size
                                     THEN n + mmap_vector_size_increment
                                     ELSE m_mapping.size
                    /\ SamePrefix(data(r), m_mapping.data, m_mapping.size)

\* C8: no call on a mapped array lowers capacity(), and a call that lowers
\* size leaves every slot as it was, those at and beyond the new size too.
C8_CapacityNeverShrinks ==
    [][(pc = "live" /\ pc' = "live") =>
          /\ m_mapping'.size >= m_mapping.size
          /\ m_size' < m_size =>
                 SamePrefix(m_mapping'.data, m_mapping.data, m_mapping.size)]_vars

\* C8 witness: a resize to a smaller size left a value in the slot at the
\* new size.
C8_Witness ==
    /\ Live
    /\ last.op = "resize" /\ last.exc = "none"
    /\ m_size >= 1 /\ m_size < hw /\ hw <= m_mapping.size
    /\ Slot(m_mapping.data, m_size) # empty

\* the largest j <= sz with j = 0 or slot j - 1 of d not the empty value
RECURSIVE Trimmed(_, _)
Trimmed(sz, d) ==
    IF sz = 0 THEN 0
    ELSE IF sz <= Len(d) /\ Slot(d, sz - 1) # empty THEN sz
    ELSE Trimmed(sz - 1, d)

\* C9: shrink_to_fit() on an array of size s sets size to the largest
\* j <= s such that j = 0 or slot j - 1 is not the empty value, and changes
\* nothing else.
C9_ShrinkToFit ==
    Live =>
        \A e \in WildEnv :
            LET r == shrink_to_fit(Self, e)
            IN  r.exc = "none" =>
                    /\ r.m_size = Trimmed(m_size, m_mapping.data)
                    /\ r.m_mapping = m_mapping

\* C10: clear() sets size to 0 and leaves capacity unchanged; a push_back(v)
\* right after it returns, and then size is 1 and at(0) returns v, whatever
\* slot 0 held.
C10_ClearThenPushBack ==
    Live =>
        LET c == clear(Self)
        IN  /\ c.m_size = 0
            /\ c.m_mapping = m_mapping
            /\ \A v \in Values : \A e \in AnyEnv :
                   LET r == push_back(c, v, e)
                       a == at(r, 0, e)
                   IN  /\ r.exc = "none"
                       /\ r.m_size = 1
                       /\ capacity(r) = m_mapping.size
                       /\ a.exc = "none" /\ a.ret = v

\* C10 witness: a push_back right after clear() stored to slot 0 of an array
\* that held two values or more, the first a different one.
C10_Witness ==
    /\ Live
    /\ last.op = "push_back" /\ last.exc = "none" /\ last.after_clear
    /\ m_size = 1 /\ hw >= 2
    /\ Slot(m_mapping.data, 0) # Slot(m_mapping.data, 1)

\* Self after a call that threw a resource error and changed nothing
Refused == [Self EXCEPT !.exc = "system_error"]

\* C11: when the growth that reserve, resize or push_back asks for fails
\* with a resource error, the error is propagated and the array is exactly
\* as before the call: size, capacity and every slot unchanged, still mapped.
C11_FailedGrowthChangesNothing ==
    Live =>
        \A n \in SizeT : \A v \in Values : \A e \in AnyEnv :
            LET r1 == reserve(Self, n, e)
                r2 == resize(Self, n, e)
                r3 == push_back(Self, v, e)
                n2 == Plus(n, mmap_vector_size_increment)
                n3 == Plus(Plus(m_size, 1), mmap_vector_size_increment)
            IN  /\ \A r \in {r1, r2, r3} :
                       r.exc = "system_error" => r = Refused /\ r.m_mapping.mapped
                /\ (n > m_mapping.size /\ ~CanMap(n, e.ok)) => r1.exc = "system_error"
                /\ (n > m_mapping.size /\ n2 > m_mapping.size /\ ~CanMap(n2, e.ok)) =>
                       r2.exc = "system_error"
                /\ (Plus(m_size, 1) > m_mapping.size /\ n3 > m_mapping.size
                        /\ ~CanMap(n3, e.ok)) =>
                       r3.exc = "system_error"

\* C11 witness: a push_back that needed growth was refused on an array that
\* holds two values or more, not all of them empty.
C11_Witness ==
    /\ Live
    /\ last.op = "push_back" /\ last.exc = "system_error"
    /\ m_size >= 2 /\ m_size = m_mapping.size
    /\ \E i \in 0 .. (m_size - 1) : Slot(m_mapping.data, i) # empty

\* C12: every store by the array goes to an index below the capacity the
\* mapping has at that moment: the element store of push_back (made after
\* resize(m_size + 1) returned, at index m_size - 1) and the fills of
\* reserve and of both constructors (which end at the capacity asked for).
C12_WritesBelowCapacity ==
    /\ Live =>
           \A v \in Values : \A e \in AnyEnv :
               LET r == resize(Self, Plus(m_size, 1), e)
               IN  r.exc = "none" =>
                       /\ Minus(r.m_size, 1) < capacity(r)
                       /\ push_back(Self, v, e).exc # "fault"
    /\ Live =>
           \A n \in SizeT : \A e \in GrowEnv :
               LET r == reserve(Self, n, e)
               IN  (r.exc = "none" /\ n > m_mapping.size) => n <= capacity(r)
    /\ \A cap \in 0 .. (MaxMappable + 1) : \A e \in GrowEnv :
           /\ LET r == ctor_anon(file, cap, e)
              IN  r.exc = "none" => cap <= capacity(r)
           /\ \A sz \in 0 .. cap :
                  LET r == ctor_file(file, cap, sz, e)
                  IN  r.exc = "none" => cap <= capacity(r)

\* C13: an array is mapped after its construction and unmapped after
\* close(); once unmapped, no call on the same array (any call but a
\* constructor, which makes a new array) maps it again.
C13_ClosedStaysUnmapped ==
    /\ [](pc = "live" => m_mapping.mapped)
    /\ [](pc = "closed" => ~m_mapping.mapped)
    /\ [][(pc = "closed" /\ last'.op \notin {"ctor_anon", "ctor_file"}) =>
              ~m_mapping'.mapped]_vars

C15_FileConstruction ==
    \A cap \in 0 .. (MaxMappable + 1) : \A sz \in 0 .. cap : \A e \in GrowEnv :
        LET r == ctor_file(file, cap, sz, e)
        IN  r.exc = "none" =>
                /\ capacity(r) = cap
                /\ Len(data(r)) = cap
                /\ SamePrefix(data(r), GrowFile(file, cap), sz)
                /\ TailEmpty(data(r), sz, cap)
                /\ r.m_size <= sz
                /\ r.m_size = 0 \/ Slot(data(r), r.m_size - 1) # empty

\* C15 witness: an array constructed over a file that held more than the
\* array's capacity, with a size below the capacity and a value in slot 0.
C15_Witness ==
    /\ Live
    /\ last.op = "ctor_file" /\ last.exc = "none"
    /\ m_size = 1 /\ m_mapping.size = 2 /\ Len(file) = 3
    /\ Slot(m_mapping.data, 0) # empty
    /\ Slot(m_mapping.data, 1) = empty

\* C16: remap(base, old_n, new_n) yields a region of new_n elements whose
\* first min(old_n, new_n) elements are those held before, and the in-place
\* strategy and the copy strategy agree on those elements, whatever the
\* region held and whatever either leaves in the elements gained.
C16_RemapPreserves ==
    Live =>
        \A new_n \in 1 .. MaxMappable : \A j1 \in Values : \A j2 \in Values :
            LET old_n == m_mapping.size
                k == Min(old_n, new_n)
                a == remap_extend(m_mapping.data, old_n, new_n, j1)
                b == remap_copy(m_mapping.data, old_n, new_n, j2)
            IN  /\ Len(a) = new_n
                /\ Len(b) = new_n
                /\ SamePrefix(a, m_mapping.data, k)
                /\ SamePrefix(b, m_mapping.data, k)
                /\ SamePrefix(a, b, k)
                /\ new_n > old_n =>
                       MappingResize(m_mapping, new_n, file, j1).data
                           = IF m_mapping.fd = "anon" THEN a
                             ELSE Take(GrowFile(file, new_n), new_n)

\* C16 witness: an anonymous array of three slots, grown by reserve, whose
\* first two slots hold different values.
C16_Witness ==
    /\ Live
    /\ m_mapping.fd = "anon"
    /\ last.op = "reserve" /\ last.grew
    /\ m_mapping.size = 3
    /\ Slot(m_mapping.data, 0) # Slot(m_mapping.data, 1)

\* C17: grow_file(n, fd) never shortens the file: a file of n elements or
\* more is left as it is (so a repeated call, or one with a smaller n,
\* changes nothing); a shorter one afterwards holds exactly n elements, the
\* old ones unchanged and the new ones zero.  file_size is the file's
\* current length, 0 for a file no array was constructed over.
C17_GrowFile ==
    /\ pc = "none" => file_size(file) = 0
    /\ (Live /\ m_mapping.fd = "file") => file_size(file) >= m_mapping.size
    /\ \A n \in 0 .. MaxMappable :
           LET g == GrowFile(file, n)
           IN  /\ file_size(g) >= file_size(file)
               /\ file_size(g) >= n
               /\ file_size(file) >= n => g = file
               /\ file_size(file) < n =>
                      /\ file_size(g) = n
                      /\ SamePrefix(g, file, file_size(file))
                      /\ \A i \in file_size(file) .. (n - 1) : Slot(g, i) = 0
               /\ \A k \in 0 .. n : GrowFile(g, k) = g

\* C17 witness: a reserve grew the file of a file-backed array to three
\* elements, not all of them zero.
C17_Witness ==
    /\ Live
    /\ m_mapping.fd = "file"
    /\ last.op = "reserve" /\ last.grew
    /\ file_size(file) = 3
    /\ \E i \in 0 .. 2 : Slot(file, i) # 0

\* C18: map(n) fails with a resource error when n is 0 or more than can be
\* mapped, and then there is no region (an array constructed with that
\* capacity fails the same way and leaves no object); for any other n it
\* gives a region of n elements that can be written, read back and
\* released.
C18_Map ==
    \A n \in 0 .. (MaxMappable + 1) : \A e \in GrowEnv :
        LET m == map(n, e)
            r == ctor_anon(file, n, e)
        IN  /\ (n = 0 \/ n > MaxMappable) => m.exc = "system_error"
            /\ m.exc = "none" <=> CanMap(n, e.ok)
            /\ r.exc = m.exc
            /\ m.exc = "system_error" =>
                   /\ ~m.region.mapped
                   /\ r = NoObject(file)
            /\ m.exc = "none" =>
                   /\ m.region.mapped
                   /\ m.region.size = n
                   /\ Len(m.region.data) = n
                   /\ r.m_mapping.size = n
                   /\ \A v \in Values :
                          LET p == push_back(r, v, e)
                          IN  /\ p.exc = "none"
                              /\ at(p, 0, e) = [exc |-> "none", ret |-> v]
                              /\ ~close(p).m_mapping.mapped
                   /\ ~MappingUnmap(m.region).mapped

\* C18 witness: an anonymous construction was refused after an earlier
\* array was closed; nothing is mapped.
C18_Witness ==
    /\ pc = "closed"
    /\ last.op = "ctor_anon" /\ last.exc = "system_error"
    /\ ~m_mapping.mapped

\* C19: the anonymous constructor with capacity c (the increment when no
\* capacity is given) yields size 0, capacity c and the empty value in
\* every slot, whatever the fresh memory held.
C19_AnonConstruction ==
    /\ default_capacity = mmap_vector_size_increment
    /\ \A cap \in {default_capacity} \cup (0 .. (MaxMappable + 1)) : \A e \in GrowEnv :
           LET r == ctor_anon(file, cap, e)
           IN  r.exc = "none" =>
                   /\ r.m_size = 0
                   /\ capacity(r) = cap
                   /\ Len(data(r)) = cap
                   /\ TailEmpty(data(r), 0, cap)

\* C19 witness: an anonymous array of two slots or more, just constructed,
\* for an element type whose empty value is not zero.
C19_Witness ==
    /\ Live
    /\ last.op = "ctor_anon" /\ last.exc = "none"
    /\ m_size = 0 /\ m_mapping.size >= 2
    /\ empty # 0

\* whether the next k push_back calls on s all return without growing it
RECURSIVE NoGrowthFor(_, _)
NoGrowthFor(s, k) ==
    \/ k = 0
    \/ \A v \in Values : \A e \in AnyEnv :
           LET r == push_back(s, v, e)
           IN  /\ r.exc = "none"
               /\ capacity(r) = capacity(s)
               /\ NoGrowthFor(r, k - 1)

\* the number of growth events in a run of m push_back calls on s that the
\* system grants (the run ends at a call that throws)
RECURSIVE Growths(_, _)
Growths(s, m) ==
    IF m = 0 THEN 0
    ELSE LET r == push_back(s, 0, [ok |-> TRUE, junk |-> 0, g |-> 0])
         IN  IF r.exc # "none" THEN 0
             ELSE (IF capacity(r) > capacity(s) THEN 1 ELSE 0) + Growths(r, m - 1)

ByIndex == <<<< >>>> \o added

\* C21: iterating a StringTable from begin() to end() yields its strings
\* in index order, the empty string of index 0 first and at position i the
\* string add() returned i for, also when the store has more than one
\* chunk.
C21_IterationInIndexOrder == StringTable_strings(table) = ByIndex

\* the position of s in added, 0 if it is not there
Position(s) ==
    IF \E i \in 1 .. Len(added) : added[i] = s
    THEN CHOOSE i \in 1 .. Len(added) : added[i] = s
    ELSE 0

\* C22: add(s) returns the index it returned before for an equal string
\* and leaves the table as it is; a string not added since construction or
\* the last clear() gets the next index, 1, 2, 3, ... in order of first
\* insertion; size() is the number of distinct strings added plus 1;
\* clear() leaves the table as constructed, with size() 1.
C22_AddDeduplicates ==
    /\ StringTable_size(table) = Len(added) + 1
    /\ \A i, j \in 1 .. Len(added) : added[i] = added[j] => i = j
    /\ (table_last.op = "add" /\ table_last.exc = "none") =>
           /\ table_last.ret \in 1 .. Len(added)
           /\ Deref(table.m_strings,
                    (CHOOSE x \in table.m_index : x.value = table_last.ret).key)
                  = added[table_last.ret]
    /\ \A s \in Strings : \A cap \in Capacities(string_table_chunk_size) :
           LET r == StringTable_add(table, s, cap)
           IN  (Len(s) + 1 <= string_table_chunk_size /\ r.exc = "none") =>
                   IF Position(s) # 0
                   THEN r.ret = Position(s) /\ r.table = table
                   ELSE /\ r.ret = Len(added) + 1
                        /\ StringTable_size(r.table) = Len(added) + 2
                        /\ StringTable_add(r.table, s, cap).ret = r.ret
    /\ \A cap \in Capacities(string_table_chunk_size) :
           LET c == StringTable_clear(table, cap)
           IN  /\ StringTable_size(c) = 1
               /\ c.m_index = {}
               /\ StringTable_strings(c) = <<<< >>>>
               /\ Len(c.m_strings.m_chunks) = 1

\* C22 witness: add() returned the index 1 again, for a string it was
\* given before, on a table that holds three strings in two chunks or more.
C22_Witness ==
    /\ table_last.op = "add" /\ table_last.ret = 1
    /\ Len(added) = 3
    /\ Len(table.m_strings.m_chunks) >= 2

\* the futures the thread has taken from the queue
Taken == Len(pushed) - Len(m_output_queue)

====
